---- MODULE Spec2Model ----
(***************************************************************************)
(* Tone classification and speech shaping of backend/prosody.py.           *)
(*                                                                         *)
(* Texts are strings, handled character by character with Len, SubSeq and  *)
(* \o.  Two characters of the source have no spelling in a TLA+ string and *)
(* are written with a stand-in that occurs nowhere else in the model:      *)
(*     "~"  is U+2026, the single ellipsis glyph                           *)
(*     "^"  is U+2019, the curly apostrophe                                *)
(* The straight apostrophe "'" and the three periods "..." are themselves. *)
(***************************************************************************)
EXTENDS Integers, Sequences, FiniteSets, TLC

VARIABLES
    text,   \* the argument of the call
    pc,     \* "ready" before the call, "returned" after it
    tone,   \* what detect_tone(text) returned, "" before it has
    tts     \* what format_for_tts(text) computed, step by step; tts.out is its result

vars == <<text, pc, tone, tts>>

(***************************************************************************)
(* Characters and the string methods the source calls.                     *)
(***************************************************************************)
UpperChars == "ABCDEFGHIJKLMNOPQRSTUVWXYZ"

LowerChars == "abcdefghijklmnopqrstuvwxyz"

CharsOf(s) == {SubSeq(s, i, i) : i \in 1..Len(s)}

UpperSet == CharsOf(UpperChars)

LowerSet == CharsOf(LowerChars)

LowerOf == [c \in UpperSet |->
              LET i == CHOOSE j \in 1..Len(UpperChars) : SubSeq(UpperChars, j, j) = c
              IN  SubSeq(LowerChars, i, i)]

\* The characters Python's str.strip() and the regex class \s treat as space.
Whitespace == {" ", "\n", "\t"}

\* s[i - 1], "" past the ends of s.
CharAt(s, i) == IF i >= 1 /\ i <= Len(s) THEN SubSeq(s, i, i) ELSE ""

Rest(s, i) == SubSeq(s, i, Len(s))

\* Index of the first character of s from index i on that is in set, 0 when
\* there is none.
FirstIn(s, set, i) ==
    IF \E k \in i..Len(s) : CharAt(s, k) \in set
    THEN CHOOSE k \in i..Len(s) :
            /\ CharAt(s, k) \in set
            /\ \A j \in i..(k - 1) : CharAt(s, j) \notin set
    ELSE 0

\* Length of the longest run of characters of set that starts at index i.
RunLen(s, set, i) ==
    IF i > Len(s) THEN 0
    ELSE IF \A k \in i..Len(s) : CharAt(s, k) \in set THEN Len(s) + 1 - i
    ELSE (CHOOSE k \in i..Len(s) :
             /\ CharAt(s, k) \notin set
             /\ \A j \in i..(k - 1) : CharAt(s, j) \in set) - i

\* s.lower(), one half of s after the other.
RECURSIVE str_lower(_)
str_lower(s) ==
    IF s = "" THEN ""
    ELSE IF Len(s) = 1 THEN (IF s \in UpperSet THEN LowerOf[s] ELSE s)
    ELSE LET h == Len(s) \div 2
         IN  str_lower(SubSeq(s, 1, h)) \o str_lower(Rest(s, h + 1))

str_lstrip(s) == Rest(s, 1 + RunLen(s, Whitespace, 1))

str_rstrip(s) ==
    IF \A k \in 1..Len(s) : CharAt(s, k) \in Whitespace THEN ""
    ELSE SubSeq(s, 1, CHOOSE k \in 1..Len(s) :
                         /\ CharAt(s, k) \notin Whitespace
                         /\ \A j \in (k + 1)..Len(s) : CharAt(s, j) \in Whitespace)

str_strip(s) == str_rstrip(str_lstrip(s))

\* k in t
str_contains(t, k) ==
    \E i \in 1..(Len(t) - Len(k) + 1) : SubSeq(t, i, i + Len(k) - 1) = k

str_endswith(s, suffix) ==
    Len(s) >= Len(suffix) /\ SubSeq(s, Len(s) - Len(suffix) + 1, Len(s)) = suffix

(***************************************************************************)
(* The tones and the keyword groups of detect_tone.                        *)
(***************************************************************************)
TONE_EXCITED == "excited"

TONE_NEUTRAL == "neutral"

TONE_HAPPY == "happy"

TONE_SYMPATHETIC == "sympathetic"

TONE_BUMMED == "bummed"

TONE_REASSURING == "reassuring"

TONE_ENCOURAGING == "encouraging"

TONE_PLAYFUL == "playful"

TONE_INTRIGUED == "intrigued"

TONE_CAUTION == "caution"

sad_keywords ==
    { "i'm sorry", "i am sorry", "that sounds really hard",
      "that sounds tough", "i know this is hard",
      "i know this is tough", "i can see why", "i understand this is",
      "it makes sense you feel", "i get why you feel" }

bummed_keywords ==
    { "that really sucks", "that sucks", "that's rough", "that^s rough",
      "that^s not fair", "that is not fair" }

reassuring_keywords ==
    { "don't worry", "do not worry",
      "you're not alone", "you are not alone",
      "it's okay to", "it^s okay to",
      "it's ok to", "it^s ok to",
      "it's understandable", "it^s understandable",
      "you're doing your best", "you are doing your best" }

encouraging_keywords ==
    { "you've got this", "you got this",
      "i believe in you", "i^m proud of you", "i am proud of you",
      "keep going", "keep at it",
      "this is a great step", "this is a good step",
      "you^re doing great", "you're doing great" }

happy_keywords ==
    { "that's great", "that^s great",
      "that's awesome", "that^s awesome",
      "that's fantastic", "that^s fantastic",
      "i'm glad", "i am glad",
      "i'm happy for you", "i am happy for you",
      "congratulations", "congrats" }

playful_keywords ==
    { "haha", "lol", "just kidding",
      "couldn^t resist", "couldn't resist",
      "little bit cheeky", "let's have some fun", "let^s have some fun" }

intrigued_keywords ==
    { "i'm curious", "i am curious",
      "interesting question", "that's interesting", "that^s interesting",
      "let's unpack", "let^s unpack",
      "i wonder", "makes me wonder" }

caution_keywords ==
    { "be careful", "you^ll want to be careful", "you will want to be careful",
      "this might be risky", "this could be risky",
      "i^d strongly recommend", "i would strongly recommend",
      "i^d avoid", "i would avoid",
      "it^s important to", "it's important to" }

excited_keywords ==
    { "this is huge", "i'm so excited", "i am so excited",
      "this is amazing", "i'm really excited", "i am really excited",
      "this is incredible", "that^s incredible", "that's incredible",
      "this is insane", "that's insane", "that^s insane" }

\* any(k in t for k in keywords)
any_in(t, keywords) == \E k \in keywords : str_contains(t, k)

\* detect_tone with the happy group tested before the sympathetic one.
detect_tone_happy_first(txt) ==
    IF txt = "" THEN TONE_NEUTRAL
    ELSE LET t == str_lower(txt)
         IN  IF any_in(t, happy_keywords) THEN TONE_HAPPY
             ELSE IF any_in(t, sad_keywords) THEN TONE_SYMPATHETIC
             ELSE IF any_in(t, bummed_keywords) THEN TONE_BUMMED
             ELSE IF any_in(t, reassuring_keywords) THEN TONE_REASSURING
             ELSE IF any_in(t, encouraging_keywords) THEN TONE_ENCOURAGING
             ELSE IF any_in(t, playful_keywords) THEN TONE_PLAYFUL
             ELSE IF any_in(t, intrigued_keywords) THEN TONE_INTRIGUED
             ELSE IF any_in(t, caution_keywords) THEN TONE_CAUTION
             ELSE IF any_in(t, excited_keywords) THEN TONE_EXCITED
             ELSE TONE_NEUTRAL

\* detect_tone without the test of the last group, excited.
detect_tone_no_excited(txt) ==
    IF txt = "" THEN TONE_NEUTRAL
    ELSE LET t == str_lower(txt)
         IN  IF any_in(t, sad_keywords) THEN TONE_SYMPATHETIC
             ELSE IF any_in(t, bummed_keywords) THEN TONE_BUMMED
             ELSE IF any_in(t, reassuring_keywords) THEN TONE_REASSURING
             ELSE IF any_in(t, encouraging_keywords) THEN TONE_ENCOURAGING
             ELSE IF any_in(t, happy_keywords) THEN TONE_HAPPY
             ELSE IF any_in(t, playful_keywords) THEN TONE_PLAYFUL
             ELSE IF any_in(t, intrigued_keywords) THEN TONE_INTRIGUED
             ELSE IF any_in(t, caution_keywords) THEN TONE_CAUTION
             ELSE TONE_NEUTRAL

\* detect_tone with a playful keyword that ends in a space, "haha ".
detect_tone_spaced_keyword(txt) ==
    IF txt = "" THEN TONE_NEUTRAL
    ELSE LET t == str_lower(txt)
         IN  IF any_in(t, sad_keywords) THEN TONE_SYMPATHETIC
             ELSE IF any_in(t, bummed_keywords) THEN TONE_BUMMED
             ELSE IF any_in(t, reassuring_keywords) THEN TONE_REASSURING
             ELSE IF any_in(t, encouraging_keywords) THEN TONE_ENCOURAGING
             ELSE IF any_in(t, happy_keywords) THEN TONE_HAPPY
             ELSE IF any_in(t, (playful_keywords \ {"haha"}) \cup {"haha "})
                  THEN TONE_PLAYFUL
             ELSE IF any_in(t, intrigued_keywords) THEN TONE_INTRIGUED
             ELSE IF any_in(t, caution_keywords) THEN TONE_CAUTION
             ELSE IF any_in(t, excited_keywords) THEN TONE_EXCITED
             ELSE TONE_NEUTRAL

detect_tone(txt) ==
    IF txt = "" THEN TONE_NEUTRAL
    ELSE LET t == str_lower(txt)
         IN  IF any_in(t, sad_keywords) THEN TONE_SYMPATHETIC
             ELSE IF any_in(t, bummed_keywords) THEN TONE_BUMMED
             ELSE IF any_in(t, reassuring_keywords) THEN TONE_REASSURING
             ELSE IF any_in(t, encouraging_keywords) THEN TONE_ENCOURAGING
             ELSE IF any_in(t, happy_keywords) THEN TONE_HAPPY
             ELSE IF any_in(t, playful_keywords) THEN TONE_PLAYFUL
             ELSE IF any_in(t, intrigued_keywords) THEN TONE_INTRIGUED
             ELSE IF any_in(t, caution_keywords) THEN TONE_CAUTION
             ELSE IF any_in(t, excited_keywords) THEN TONE_EXCITED
             ELSE TONE_NEUTRAL

(***************************************************************************)
(* _split_sentences: re.split on the delimiters and the loop over parts.   *)
(***************************************************************************)
Delimiters == {".", "?", "!"}

\* re.split with one capturing group: text, delimiter, text, ..., text.
RECURSIVE re_split(_)
re_split(s) ==
    LET i == FirstIn(s, Delimiters, 1)
    IN  IF i = 0 THEN <<s>>
        ELSE <<SubSeq(s, 1, i - 1), CharAt(s, i)>> \o re_split(Rest(s, i + 1))

\* The for loop: st = [current, sentences] after the parts from index k on.
RECURSIVE split_loop(_, _, _)
split_loop(parts, k, st) ==
    IF k > Len(parts) THEN st
    ELSE LET part == parts[k]
         IN  IF part = "" THEN split_loop(parts, k + 1, st)
             ELSE IF str_contains(".?!", part)
                  THEN split_loop(parts, k + 1,
                         [current |-> "",
                          sentences |-> Append(st.sentences,
                                               str_strip(st.current \o part))])
                  ELSE split_loop(parts, k + 1,
                         [current |-> IF st.current # "" THEN st.current \o part
                                      ELSE part,
                          sentences |-> st.sentences])

_split_sentences(txt) ==
    LET st == split_loop(re_split(txt), 1, [current |-> "", sentences |-> <<>>])
        sentences == IF str_strip(st.current) # ""
                     THEN Append(st.sentences, str_strip(st.current))
                     ELSE st.sentences
    IN  IF sentences = <<>> THEN <<str_strip(txt)>> ELSE sentences

(***************************************************************************)
(* _soften_existing_name and the pattern it matches on the first sentence:  *)
(* an upper-case letter and 1 to 20 lower-case letters (the name), one or  *)
(* more commas or spaces, and the remainder up to the end.                 *)
(***************************************************************************)
\* The most lowercase letters [a-z]{1,20} may take.
NameMaxLower == 20

\* The match of the pattern on s: [matched, name, rest].  The lowercase run
\* must end within NameMaxLower letters at a separator; "." takes no newline
\* and "$" stands at the end or before one final newline.
name_match(s) ==
    LET n    == RunLen(s, LowerSet, 2)
        m    == RunLen(s, {",", " "}, 2 + n)
        tail == Rest(s, 2 + n + m)
        nl   == FirstIn(tail, {"\n"}, 1)
        ok   == /\ s # ""
                /\ CharAt(s, 1) \in UpperSet
                /\ n >= 1 /\ n <= NameMaxLower
                /\ m >= 1
                /\ nl \in {0, Len(tail)}
    IN  [matched |-> ok,
         name    |-> IF ok THEN SubSeq(s, 1, 1 + n) ELSE "",
         rest    |-> IF ok THEN (IF nl = 0 THEN tail
                                 ELSE SubSeq(tail, 1, Len(tail) - 1))
                     ELSE ""]

soften_first(s) ==
    LET mt   == name_match(s)
        rest == str_lstrip(mt.rest)
    IN  IF mt.matched
        THEN (IF rest # "" THEN mt.name \o "... " \o rest ELSE mt.name \o "...")
        ELSE s

\* _soften_existing_name without the test idx == 0: every sentence is softened.
soften_every_sentence(sentences, tn) ==
    IF tn # TONE_SYMPATHETIC THEN sentences
    ELSE [idx \in 1..Len(sentences) |-> soften_first(sentences[idx])]

_soften_existing_name(sentences, tn) ==
    IF tn # TONE_SYMPATHETIC THEN sentences
    ELSE [idx \in 1..Len(sentences) |->
            IF idx = 1 THEN soften_first(sentences[idx]) ELSE sentences[idx]]

(***************************************************************************)
(* format_for_tts.                                                         *)
(***************************************************************************)
MarkerWords == {"sorry", "hard", "tough", "understand", "alone", "worried"}

\* len(joined) above which the upbeat branch flushes its buffer.
UpbeatLimit == 80

\* len(joined) above which the neutral branch flushes its buffer.
NeutralLimit == 100

\* sep.join(strs)
RECURSIVE str_join(_, _)
str_join(sep, strs) ==
    IF strs = <<>> THEN ""
    ELSE IF Len(strs) = 1 THEN strs[1]
    ELSE strs[1] \o sep \o str_join(sep, Tail(strs))

\* The sympathetic / bummed loop with the blank line after the even indexes.
RECURSIVE gentle_lines_even(_, _)
gentle_lines_even(sentences, k) ==
    IF k > Len(sentences) THEN <<>>
    ELSE LET s0 == sentences[k]
             s  == IF any_in(str_lower(s0), MarkerWords) /\ ~str_endswith(s0, "...")
                   THEN s0 \o "..." ELSE s0
         IN  <<s>> \o (IF (k - 1) % 2 = 0 THEN <<"">> ELSE <<>>)
                   \o gentle_lines_even(sentences, k + 1)

\* The sympathetic / bummed loop from the sentence at index k (i = k - 1) on.
RECURSIVE gentle_lines(_, _)
gentle_lines(sentences, k) ==
    IF k > Len(sentences) THEN <<>>
    ELSE LET s0 == sentences[k]
             s  == IF any_in(str_lower(s0), MarkerWords) /\ ~str_endswith(s0, "...")
                   THEN s0 \o "..." ELSE s0
         IN  <<s>> \o (IF (k - 1) % 2 = 1 THEN <<"">> ELSE <<>>)
                   \o gentle_lines(sentences, k + 1)

\* The buffering loop without the flush of the remainder after it.
RECURSIVE buffered_lines_no_flush(_, _, _, _)
buffered_lines_no_flush(sentences, k, buffer, limit) ==
    IF k > Len(sentences) THEN <<>>
    ELSE LET buf    == Append(buffer, sentences[k])
             joined == str_join(" ", buf)
         IN  IF Len(joined) > limit
             THEN <<joined>> \o buffered_lines_no_flush(sentences, k + 1, <<>>, limit)
             ELSE buffered_lines_no_flush(sentences, k + 1, buf, limit)

\* The buffering loop flushing already when the joined length reaches the limit.
RECURSIVE buffered_lines_flush_at_limit(_, _, _, _)
buffered_lines_flush_at_limit(sentences, k, buffer, limit) ==
    IF k > Len(sentences)
    THEN (IF buffer # <<>> THEN <<str_join(" ", buffer)>> ELSE <<>>)
    ELSE LET buf    == Append(buffer, sentences[k])
             joined == str_join(" ", buf)
         IN  IF Len(joined) >= limit
             THEN <<joined>> \o buffered_lines_flush_at_limit(sentences, k + 1, <<>>, limit)
             ELSE buffered_lines_flush_at_limit(sentences, k + 1, buf, limit)

\* The buffering loop of the upbeat and neutral branches and the flush of the
\* remainder after it: buffer is the list being filled, k the next sentence.
RECURSIVE buffered_lines(_, _, _, _)
buffered_lines(sentences, k, buffer, limit) ==
    IF k > Len(sentences)
    THEN (IF buffer # <<>> THEN <<str_join(" ", buffer)>> ELSE <<>>)
    ELSE LET buf    == Append(buffer, sentences[k])
             joined == str_join(" ", buf)
         IN  IF Len(joined) > limit
             THEN <<joined>> \o buffered_lines(sentences, k + 1, <<>>, limit)
             ELSE buffered_lines(sentences, k + 1, buf, limit)

\* The upbeat branch without its closing lift.
closing_lift_none(last, tn) == last

\* The closing lift of the upbeat branch on the last line.
closing_lift(last, tn) ==
    IF tn \in {TONE_ENCOURAGING, TONE_REASSURING, TONE_PLAYFUL}
    THEN (IF ~(str_endswith(last, "!") \/ str_endswith(last, "~")
                 \/ str_endswith(last, "..."))
          THEN last \o "..." ELSE last)
    ELSE IF tn \in {TONE_HAPPY, TONE_EXCITED}
    THEN (IF ~str_endswith(last, "!") THEN last \o "!" ELSE last)
    ELSE last

upbeat_lines(sentences, tn) ==
    LET ls == buffered_lines(sentences, 1, <<>>, UpbeatLimit)
    IN  IF ls # <<>>
        THEN [ls EXCEPT ![Len(ls)] = closing_lift(ls[Len(ls)], tn)]
        ELSE ls

RECURSIVE caution_lines(_, _)
caution_lines(sentences, k) ==
    IF k > Len(sentences) THEN <<>>
    ELSE <<sentences[k], "">> \o caution_lines(sentences, k + 1)

\* The if / elif chain on the tone.
shape_lines(sentences, tn) ==
    IF tn \in {TONE_SYMPATHETIC, TONE_BUMMED} THEN gentle_lines(sentences, 1)
    ELSE IF tn \in {TONE_ENCOURAGING, TONE_HAPPY, TONE_REASSURING,
                    TONE_PLAYFUL, TONE_EXCITED}
    THEN upbeat_lines(sentences, tn)
    ELSE IF tn = TONE_CAUTION THEN caution_lines(sentences, 1)
    ELSE buffered_lines(sentences, 1, <<>>, NeutralLimit)

\* while shaped_lines and not shaped_lines[0].strip(): shaped_lines.pop(0)
RECURSIVE pop_leading(_)
pop_leading(ls) ==
    IF ls # <<>> /\ str_strip(ls[1]) = "" THEN pop_leading(Tail(ls)) ELSE ls

\* while shaped_lines and not shaped_lines[-1].strip(): shaped_lines.pop()
RECURSIVE pop_trailing(_)
pop_trailing(ls) ==
    IF ls # <<>> /\ str_strip(ls[Len(ls)]) = ""
    THEN pop_trailing(SubSeq(ls, 1, Len(ls) - 1)) ELSE ls

clean_lines(ls) == pop_trailing(pop_leading(ls))

\* out.replace("...", glyph): leftmost first, without overlap.
RECURSIVE replace_ellipsis(_)
replace_ellipsis(s) ==
    IF ~str_contains(s, "...") THEN s
    ELSE LET k == CHOOSE i \in 1..(Len(s) - 2) :
                     /\ SubSeq(s, i, i + 2) = "..."
                     /\ ~str_contains(SubSeq(s, 1, i + 1), "...")
         IN  SubSeq(s, 1, k - 1) \o "~" \o replace_ellipsis(Rest(s, k + 3))

\* re.sub of a whitespace run that a period follows by the period alone.
\* The leftmost match starts at the first whitespace character whose run of
\* whitespace a period ends; the search goes on after that period.
RECURSIVE collapse_space_period(_)
collapse_space_period(s) ==
    LET periods == {p \in 2..Len(s) :
                      CharAt(s, p) = "." /\ CharAt(s, p - 1) \in Whitespace}
    IN  IF periods = {} THEN s
        ELSE LET p == CHOOSE q \in periods : \A r \in periods : q <= r
                 k == CHOOSE i \in 1..(p - 1) :
                         /\ \A j \in i..(p - 1) : CharAt(s, j) \in Whitespace
                         /\ CharAt(s, i - 1) \notin Whitespace
             IN  SubSeq(s, 1, k - 1) \o "." \o collapse_space_period(Rest(s, p + 1))

\* The two statements that normalize the joined text.
normalize(s) == collapse_space_period(replace_ellipsis(s))

\* What a call that did not run a step holds for it.
NotRun == [tone |-> "", sentences |-> <<>>, softened |-> <<>>,
           shaped_lines |-> <<>>, lines |-> <<>>, joined |-> "", out |-> ""]

\* format_for_tts without the early return on a blank text.
format_trace_no_guard(txt) ==
    LET t         == str_strip(txt)
        tn        == detect_tone(t)
        sentences == _split_sentences(t)
        softened  == _soften_existing_name(sentences, tn)
        shaped    == shape_lines(softened, tn)
        ls        == clean_lines(shaped)
        joined    == IF ls # <<>> THEN str_join("\n\n", ls) ELSE t
    IN  [tone |-> tn, sentences |-> sentences, softened |-> softened,
         shaped_lines |-> shaped, lines |-> ls, joined |-> joined,
         out |-> normalize(joined)]

\* Every intermediate value of format_for_tts(txt), and its result, out.
format_trace(txt) ==
    LET t == str_strip(txt)
    IN  IF t = "" THEN [NotRun EXCEPT !.out = t]
        ELSE LET tn        == detect_tone(t)
                 sentences == _split_sentences(t)
                 softened  == _soften_existing_name(sentences, tn)
                 shaped    == shape_lines(softened, tn)
                 ls        == clean_lines(shaped)
                 joined    == IF ls # <<>> THEN str_join("\n\n", ls) ELSE t
             IN  [tone |-> tn, sentences |-> sentences, softened |-> softened,
                  shaped_lines |-> shaped, lines |-> ls, joined |-> joined,
                  out |-> normalize(joined)]

format_for_tts(txt) == format_trace(txt).out

(***************************************************************************)
(* The calls.  A caller passes any string; the texts checked are all the   *)
(* concatenations of a few fragments, which put phrases of every keyword   *)
(* group, names, delimiters, ellipses and spaces in every order.           *)
(***************************************************************************)
MaxToneFragments == 2

MaxShapeFragments == 3

ToneFragments ==
    { "I'm sorry", "That sucks", "That^s rough", "Don't worry", "Keep going",
      "Congrats", "haha", "I wonder", "Be careful", "This is huge", "ok", " " }

ShapeFragments ==
    { "that sounds really hard", "John, ", "Wolfeschlegelsteinhausen, ",
      "That sucks", "Keep going", "Be careful",
      "This is huge and I am so excited to hear every little detail about how it all went",
      ".", "!", "...", "~", "\n" }

MaxBufferFragments == 3

\* Whole sentences for the buffering branches: a neutral sentence of exactly
\* 100 characters, a neutral one of 46, an encouraging one of exactly 80, and
\* short ones of each buffered tone.
BufferFragments ==
    { "The minutes of the last meeting were sent to everybody on the list together with the agenda for May. ",
      "The train to the coast leaves at nine o'clock. ",
      "Keep going with the plan that we wrote down together and see where it takes you. ",
      "Ok. ", "I wonder. ", "Congrats! ", "haha. ", "Don't worry. ", "This is huge! " }

MaxChatFragments == 3

\* Pieces of a completion's message content: the whitespace that strip
\* removes, phrases of several keyword groups, and plain text.
ChatFragments ==
    { " ", "\n", "\t", "I'm sorry", "Keep going", "haha", "I wonder",
      "Be careful", "This is huge", "ok", "." }

\* Every concatenation of at most n fragments.
RECURSIVE Texts(_, _)
Texts(fragments, n) ==
    IF n = 0 THEN {""}
    ELSE LET shorter == Texts(fragments, n - 1)
         IN  shorter \cup {t \o f : t \in shorter, f \in fragments}

InitTone ==
    /\ text \in Texts(ToneFragments, MaxToneFragments)
    /\ pc = "ready"
    /\ tone = ""
    /\ tts = NotRun

InitShape ==
    /\ text \in Texts(ShapeFragments, MaxShapeFragments)
    /\ pc = "ready"
    /\ tone = ""
    /\ tts = NotRun

InitBuffer ==
    /\ text \in Texts(BufferFragments, MaxBufferFragments)
    /\ pc = "ready"
    /\ tone = ""
    /\ tts = NotRun

\* text is the content of the completion's first message.
InitChat ==
    /\ text \in Texts(ChatFragments, MaxChatFragments)
    /\ pc = "ready"
    /\ tone = ""
    /\ tts = NotRun

DetectTone ==
    /\ pc = "ready"
    /\ tone' = detect_tone(text)
    /\ pc' = "returned"
    /\ UNCHANGED <<text, tts>>

FormatForTts ==
    /\ pc = "ready"
    /\ tts' = format_trace(text)
    /\ pc' = "returned"
    /\ UNCHANGED <<text, tone>>

\* The chat endpoint once the completion has arrived: the reply is the
\* stripped content, its tone is reported, and synthesize_speech shapes the
\* reply with format_for_tts.
Chat ==
    /\ pc = "ready"
    /\ LET reply_text == str_strip(text)
       IN  /\ tone' = detect_tone(reply_text)
           /\ tts' = format_trace(reply_text)
    /\ pc' = "returned"
    /\ UNCHANGED text

\* The chat endpoint when the completion call raises: the reply is an error
\* message, the tone reported is neutral and no speech is made.
ChatFailed ==
    /\ pc = "ready"
    /\ tone' = TONE_NEUTRAL
    /\ pc' = "failed"
    /\ UNCHANGED <<text, tts>>

SpecTone == InitTone /\ [][DetectTone]_vars

SpecShape == InitShape /\ [][FormatForTts]_vars

SpecBuffer == InitBuffer /\ [][FormatForTts]_vars

NextChat == Chat \/ ChatFailed

SpecChat == InitChat /\ [][NextChat]_vars

(***************************************************************************)
(* Properties of detect_tone, checked under SpecTone.                      *)
(***************************************************************************)
\* The keyword groups in the priority order of the specification, each with
\* the tone it stands for.
PriorityOrder ==
    << [tone |-> TONE_SYMPATHETIC, keywords |-> sad_keywords],
       [tone |-> TONE_BUMMED,      keywords |-> bummed_keywords],
       [tone |-> TONE_REASSURING,  keywords |-> reassuring_keywords],
       [tone |-> TONE_ENCOURAGING, keywords |-> encouraging_keywords],
       [tone |-> TONE_HAPPY,       keywords |-> happy_keywords],
       [tone |-> TONE_PLAYFUL,     keywords |-> playful_keywords],
       [tone |-> TONE_INTRIGUED,   keywords |-> intrigued_keywords],
       [tone |-> TONE_CAUTION,     keywords |-> caution_keywords],
       [tone |-> TONE_EXCITED,     keywords |-> excited_keywords] >>

\* Group g of the priority order has a phrase in the lowercased txt.
GroupOccurs(g, txt) == any_in(str_lower(txt), PriorityOrder[g].keywords)

\* C1: detect_tone is first-match-wins over the priority order: the result is
\* the tone of the earliest group with a phrase in the lowercased text,
\* whatever phrases of later groups occur too; in particular a text with a
\* sympathetic phrase is sympathetic.
C1_FirstMatchWins ==
    pc = "returned" =>
        /\ \A g \in 1..Len(PriorityOrder) :
              (GroupOccurs(g, text) /\ \A h \in 1..(g - 1) : ~GroupOccurs(h, text))
                  => tone = PriorityOrder[g].tone
        /\ GroupOccurs(1, text) => tone = TONE_SYMPATHETIC

\* C1's case: a sympathetic phrase and a phrase of a later group in one text.
C1_Witness ==
    /\ pc = "returned"
    /\ GroupOccurs(1, text)
    /\ \E g \in 2..Len(PriorityOrder) : GroupOccurs(g, text)
    /\ tone = TONE_SYMPATHETIC

Tones ==
    { TONE_EXCITED, TONE_NEUTRAL, TONE_HAPPY, TONE_SYMPATHETIC, TONE_BUMMED,
      TONE_REASSURING, TONE_ENCOURAGING, TONE_PLAYFUL, TONE_INTRIGUED,
      TONE_CAUTION }

\* C2: detect_tone returns one of the ten labels, and neutral exactly when no
\* phrase of any group occurs in the lowercased text (the empty text included).
C2_TenLabelsNeutralIffNoPhrase ==
    pc = "returned" =>
        /\ tone \in Tones
        /\ Cardinality(Tones) = 10
        /\ tone = TONE_NEUTRAL
              <=> \A g \in 1..Len(PriorityOrder) : ~GroupOccurs(g, text)
        /\ text = "" => tone = TONE_NEUTRAL

\* C2's cases: the empty text and a text of words no group holds are neutral.
C2_Witness ==
    /\ pc = "returned"
    /\ text \in {"", "ok ok"}
    /\ tone = TONE_NEUTRAL

Apostrophes == {"'", "^"}

\* s with each apostrophe replaced by the other glyph.
RECURSIVE other_apostrophe(_)
other_apostrophe(s) ==
    IF s = "" THEN ""
    ELSE IF Len(s) = 1 THEN (IF s = "'" THEN "^" ELSE IF s = "^" THEN "'" ELSE s)
    ELSE LET h == Len(s) \div 2
         IN  other_apostrophe(SubSeq(s, 1, h)) \o other_apostrophe(Rest(s, h + 1))

\* C8: every phrase with an apostrophe has its other-glyph spelling in the
\* same group (stated of the phrases that occur in the text), so writing the
\* text's apostrophes with the other glyph leaves the tone unchanged.
C8_ApostropheGlyphs ==
    pc = "returned" =>
        /\ \A g \in 1..Len(PriorityOrder) : \A k \in PriorityOrder[g].keywords :
              (str_contains(str_lower(text), k) /\ CharsOf(k) \cap Apostrophes # {})
                  => other_apostrophe(k) \in PriorityOrder[g].keywords
        /\ detect_tone(other_apostrophe(text)) = tone

(***************************************************************************)
(* Properties of format_for_tts, checked under SpecShape.                  *)
(***************************************************************************)
\* format_for_tts went past its early return: it classified and segmented.
Shaped == pc = "returned" /\ tts.tone # ""

\* C3: normalizing the result a second time leaves it unchanged, so no result
\* holds three periods in a row or whitespace right before a period.
C3_NormalizationIdempotent ==
    pc = "returned" =>
        /\ normalize(tts.out) = tts.out
        /\ ~str_contains(tts.out, "...")
        /\ \A w \in Whitespace : ~str_contains(tts.out, w \o ".")

\* s cut at its line breaks.
RECURSIVE split_lines(_)
split_lines(s) ==
    LET i == FirstIn(s, {"\n"}, 1)
    IN  IF i = 0 THEN <<s>>
        ELSE <<SubSeq(s, 1, i - 1)>> \o split_lines(Rest(s, i + 1))

NonBlank(l) == str_strip(l) # ""

\* The last line of s that is not blank, "" when every line is.
final_line(s) ==
    LET ls == SelectSeq(split_lines(s), NonBlank)
    IN  IF ls = <<>> THEN "" ELSE ls[Len(ls)]

EndsInEllipsis(s) == str_endswith(s, "...") \/ str_endswith(s, "~")

UpbeatTones ==
    {TONE_ENCOURAGING, TONE_REASSURING, TONE_PLAYFUL, TONE_HAPPY, TONE_EXCITED}

\* C4 as claimed: for an upbeat tone the final non-empty line of the result
\* ends in "!" (happy, excited), or in "!" or the ellipsis glyph (the others).
C4_UpbeatEndsLifted ==
    (Shaped /\ tts.tone \in UpbeatTones) =>
        LET last == final_line(tts.out)
        IN  IF tts.tone \in {TONE_HAPPY, TONE_EXCITED}
            THEN str_endswith(last, "!")
            ELSE str_endswith(last, "!") \/ str_endswith(last, "~")

\* C4 as amended: for an upbeat tone the final non-empty line of the result
\* ends in "!" (happy, excited); for the others it ends in "!", in the
\* ellipsis glyph, or, when the last sentence ended in a period, in the
\* glyph followed by that period.
C4_UpbeatEndsLiftedOrGlyphPeriod ==
    (Shaped /\ tts.tone \in UpbeatTones) =>
        LET last == final_line(tts.out)
            sent == tts.softened[Len(tts.softened)]
        IN  IF tts.tone \in {TONE_HAPPY, TONE_EXCITED}
            THEN str_endswith(last, "!")
            ELSE \/ str_endswith(last, "!")
                 \/ str_endswith(last, "~")
                 \/ str_endswith(last, "~.") /\ str_endswith(sent, ".")

\* C4's case: an encouraging text of two lines whose last line ended bare
\* and now ends in the glyph.
C4_Witness ==
    /\ Shaped
    /\ tts.tone = TONE_ENCOURAGING
    /\ Len(tts.lines) = 2
    /\ ~EndsInEllipsis(str_strip(text)) /\ ~str_endswith(str_strip(text), "!")
    /\ str_endswith(final_line(tts.out), "~")

Separators == {",", " "}

\* s is an upper-case letter and lower-case letters up to index i, separators
\* up to index j, and remaining text from index j + 1 on.
NameShapeAt(s, i, j) ==
    /\ CharAt(s, 1) \in UpperSet
    /\ 2 <= i /\ i < j /\ j < Len(s)
    /\ \A k \in 2..i : CharAt(s, k) \in LowerSet
    /\ \A k \in (i + 1)..j : CharAt(s, k) \in Separators
    /\ CharAt(s, j + 1) \notin Separators

\* s is a capitalized word, a comma/space separator and remaining text.
HasNameShape(s) == \E i, j \in 2..Len(s) : NameShapeAt(s, i, j)

\* The same, with at most NameMaxLower lower-case letters in the word and no
\* line break in the remaining text.
HasShortNameShape(s) ==
    \E i, j \in 2..Len(s) :
        /\ NameShapeAt(s, i, j)
        /\ i - 1 <= NameMaxLower
        /\ ~str_contains(Rest(s, j + 1), "\n")

\* "Word... remaining text" for a sentence of that shape.
Softened(s) ==
    LET ij == CHOOSE p \in (2..Len(s)) \X (2..Len(s)) : NameShapeAt(s, p[1], p[2])
    IN  SubSeq(s, 1, ij[1]) \o "... " \o str_lstrip(Rest(s, ij[2] + 1))

\* What C5 says of every sentence but a first one of the name shape.
OthersPassThrough ==
    /\ Len(tts.softened) = Len(tts.sentences)
    /\ \A i \in 2..Len(tts.sentences) : tts.softened[i] = tts.sentences[i]
    /\ tts.tone # TONE_SYMPATHETIC => tts.softened = tts.sentences
    /\ text = "John, that sounds really hard"
          => tts.out = "John~ that sounds really hard~"

\* C5 as claimed: only a sympathetic text's first sentence is rewritten; when
\* it is a capitalized word, a comma/space separator and remaining text, it
\* becomes the word, an ellipsis, a space and the remaining text intact; every
\* later sentence and every sentence of another tone passes unchanged.
C5_NameSoftening ==
    Shaped =>
        /\ OthersPassThrough
        /\ (tts.tone = TONE_SYMPATHETIC /\ HasNameShape(tts.sentences[1]))
              => tts.softened[1] = Softened(tts.sentences[1])

\* C5 as amended: the same, for a capitalized word of an upper-case letter
\* and 1 to 20 lower-case letters and remaining text without a line break.
C5_ShortNameSoftening ==
    Shaped =>
        /\ OthersPassThrough
        /\ (tts.tone = TONE_SYMPATHETIC /\ HasShortNameShape(tts.sentences[1]))
              => tts.softened[1] = Softened(tts.sentences[1])

\* C5's case: the name at the start of a sympathetic first sentence softened.
C5_Witness ==
    /\ Shaped
    /\ text = "John, that sounds really hard"
    /\ tts.tone = TONE_SYMPATHETIC
    /\ tts.softened = <<"John... that sounds really hard">>
    /\ tts.out = "John~ that sounds really hard~"

WordChars == UpperSet \cup LowerSet \cup Apostrophes

\* The words of s in order: its longest runs of letters and apostrophes.
RECURSIVE words(_)
words(s) ==
    LET i == FirstIn(s, WordChars, 1)
        n == RunLen(s, WordChars, i)
    IN  IF i = 0 THEN <<>>
        ELSE <<SubSeq(s, i, i + n - 1)>> \o words(Rest(s, i + n))

\* The words of the strings of a sequence, one string after the other.
RECURSIVE words_of_all(_)
words_of_all(strs) ==
    IF strs = <<>> THEN <<>> ELSE words(strs[1]) \o words_of_all(Tail(strs))

\* C6: the words of the result, read in order across its lines, are exactly
\* the words of the segmented sentences in their order: shaping drops,
\* duplicates and reorders none.
C6_WordsPreserved ==
    Shaped => words(tts.out) = words_of_all(tts.sentences)

\* C6's case: several sentences, the first softened, shaped over several
\* lines with every word still in place.
C6_Witness ==
    /\ Shaped
    /\ Len(tts.sentences) >= 2
    /\ Len(tts.lines) >= 2
    /\ tts.softened # tts.sentences
    /\ Len(words(tts.out)) >= 5
    /\ words(tts.out) = words_of_all(tts.sentences)

\* C7: a blank text returns the empty string and neither classification nor
\* segmentation runs; every other text returns a non-empty string.
C7_TotalBlankToEmpty ==
    pc = "returned" =>
        IF str_strip(text) = ""
        THEN tts = NotRun
        ELSE tts.out # "" /\ tts.tone \in Tones /\ tts.sentences # <<>>

\* C7's case: a text of whitespace alone has returned the empty string.
C7_Witness ==
    /\ pc = "returned"
    /\ text # "" /\ str_strip(text) = ""
    /\ tts.out = ""
    /\ tts.tone = ""

GentleTones == {TONE_SYMPATHETIC, TONE_BUMMED}

\* The lines of ls that are not the empty line, in order.
NotEmpty(l) == l # ""

sentence_lines(ls) == SelectSeq(ls, NotEmpty)

\* C9: in sympathetic / bummed shaping the line of a sentence with a marker
\* word ends in an ellipsis, appended only when the sentence did not end in
\* one ("..." or the glyph) already; a sentence without a marker word is its
\* line as it stands.
C9_MarkerEllipsisOnce ==
    (Shaped /\ tts.tone \in GentleTones) =>
        LET ls == sentence_lines(tts.shaped_lines)
        IN  /\ Len(ls) = Len(tts.softened)
            /\ \A i \in 1..Len(tts.softened) :
                  LET s == tts.softened[i]
                  IN  IF any_in(str_lower(s), MarkerWords) /\ ~EndsInEllipsis(s)
                      THEN ls[i] = s \o "..."
                      ELSE ls[i] = s

str_startswith(s, prefix) ==
    Len(s) >= Len(prefix) /\ SubSeq(s, 1, Len(prefix)) = prefix

\* An empty line follows the sentence at 0-based index i of n sentences.
BreakAfter(tn, i, n) ==
    /\ i + 1 < n
    /\ tn = TONE_CAUTION \/ (tn \in GentleTones /\ i % 2 = 1)

\* The lines C10 describes for n sentences, TRUE standing for an empty line.
RECURSIVE BreakPattern(_, _, _)
BreakPattern(tn, i, n) ==
    IF i >= n THEN <<>>
    ELSE <<FALSE>> \o (IF BreakAfter(tn, i, n) THEN <<TRUE>> ELSE <<>>)
                   \o BreakPattern(tn, i + 1, n)

\* C10: for sympathetic, bummed and caution texts each sentence is a line of
\* the joined list, an empty line follows the sentence at index i exactly when
\* a later sentence exists and the tone is caution or i is odd; the list
\* neither starts nor ends with an empty line, has no two in a row, and is
\* one line for one sentence.
C10_ParagraphBreaks ==
    (Shaped /\ tts.tone \in GentleTones \cup {TONE_CAUTION}) =>
        LET ls == tts.lines
            n  == Len(tts.sentences)
        IN  /\ [k \in 1..Len(ls) |-> ls[k] = ""] = BreakPattern(tts.tone, 0, n)
            /\ \A i \in 1..n : str_startswith(sentence_lines(ls)[i], tts.softened[i])
            /\ tts.tone = TONE_CAUTION => sentence_lines(ls) = tts.sentences
            /\ ls[1] # "" /\ ls[Len(ls)] # ""
            /\ \A k \in 1..(Len(ls) - 1) : ~(ls[k] = "" /\ ls[k + 1] = "")
            /\ n = 1 => Len(ls) = 1

\* C10's case: a sympathetic or bummed text of four sentences, with its one
\* empty line after the second sentence and, the trailing one popped, none
\* after the fourth.
C10_Witness ==
    /\ Shaped
    /\ tts.tone \in GentleTones
    /\ Len(tts.sentences) = 4
    /\ Len(tts.shaped_lines) = 6
    /\ Len(tts.lines) = 5 /\ tts.lines[3] = ""

(***************************************************************************)
(* Properties of the line buffering, checked under SpecBuffer.             *)
(***************************************************************************)
BufferedTones == UpbeatTones \cup {TONE_NEUTRAL, TONE_INTRIGUED}

\* The threshold C11 gives for a tone.
Threshold(tn) == IF tn \in UpbeatTones THEN 80 ELSE 100

\* The sentences from index a to index b joined by single spaces.
Joined(sentences, a, b) == str_join(" ", SubSeq(sentences, a, b))

\* The line as it stands in shaped_lines: the last line of an upbeat text has
\* received the closing lift after the buffering.
AsShaped(line, k, n, tn) ==
    IF k = n /\ tn \in UpbeatTones THEN closing_lift(line, tn) ELSE line

\* lines are the sentences cut into consecutive non-empty groups, in order and
\* with none left over, each group joined by spaces; every group without its
\* final sentence is at most T long, and every group but the last is longer
\* than T.
GreedyLines(sentences, lines, tn) ==
    LET n == Len(lines)
        T == Threshold(tn)
    IN  \E cut \in [0..n -> 0..Len(sentences)] :
            /\ cut[0] = 0
            /\ cut[n] = Len(sentences)
            /\ \A k \in 1..n :
                /\ cut[k - 1] < cut[k]
                /\ lines[k] = AsShaped(Joined(sentences, cut[k - 1] + 1, cut[k]), k, n, tn)
                /\ Len(Joined(sentences, cut[k - 1] + 1, cut[k] - 1)) <= T
                /\ k < n => Len(Joined(sentences, cut[k - 1] + 1, cut[k])) > T

\* C11: for encouraging, happy, reassuring, playful and excited texts with
\* T = 80, and for neutral and intrigued texts with T = 100, the assembled
\* lines are the sentences in order, joined by spaces in consecutive groups;
\* every line but possibly the last is longer than T, every line without its
\* final sentence is at most T long, and the sentences left in the buffer at
\* the end make the last line.
C11_GreedyBuffering ==
    (Shaped /\ tts.tone \in BufferedTones) =>
        GreedyLines(tts.softened, tts.shaped_lines, tts.tone)

\* C11's case: a text whose first line was flushed by the sentence that took
\* it past the threshold, that line without the sentence being exactly at the
\* threshold, and whose remaining sentence is the last line.
C11_Witness ==
    /\ Shaped
    /\ tts.tone \in BufferedTones
    /\ Len(tts.softened) = 3
    /\ Len(tts.shaped_lines) = 2
    /\ Len(tts.softened[1]) = Threshold(tts.tone)
    /\ tts.shaped_lines[1] = Joined(tts.softened, 1, 2)

(***************************************************************************)
(* Properties of the chat endpoint, checked under SpecChat.                *)
(***************************************************************************)
\* C12: detect_tone gives the content of a completion and the stripped content
\* the same tone, and so does format_for_tts whenever it shapes a text; the
\* tone the chat endpoint reports for a reply is the tone format_for_tts used
\* to choose the shaping branch of the reply's speech text.
C12_ToneInvariantUnderStrip ==
    pc = "returned" =>
        /\ detect_tone(text) = detect_tone(str_strip(text))
        /\ tone = detect_tone(text)
        /\ tts.tone # "" => tts.tone = tone
        /\ format_trace(text).tone \in {"", detect_tone(text)}

\* C12's case: content with whitespace before and after a phrase of a keyword
\* group, for which the endpoint reported the group's tone and format_for_tts
\* shaped the reply.
C12_Witness ==
    /\ pc = "returned"
    /\ CharAt(text, 1) \in Whitespace
    /\ CharAt(text, Len(text)) \in Whitespace
    /\ tone # TONE_NEUTRAL
    /\ tts.tone = tone

====
